---- MODULE Spec2Model ----
(***************************************************************************)
(* A model of client.py: CLIResponse (the Result of one invocation),       *)
(* read_pipe (the pump threads), CommandLineClient._exec_cmd / exec_cmd /  *)
(* async_cmd (the execution engine), and cleanup() over OBJS_TO_CLEANUP.   *)
(*                                                                         *)
(* Every Python thread is a program counter; a step is one statement that  *)
(* touches shared state (an attribute store, a list operation, a system    *)
(* call).  Program counters are named after the source line they are at.   *)
(* The operating system is part of the state: the tracked process, its     *)
(* descendants and the two pipes.  POSIX only (is_windows = False).        *)
(***************************************************************************)
EXTENDS Integers, Sequences, FiniteSets, TLC

\* ---------------------------------------------------------------- bounds
NRes == 2        \* Results (invocations) that may exist
MaxDesc == 1     \* descendants of one tracked process
MaxOut == 2      \* bytes the process writes to each stream
MaxKills == 2    \* kill() calls the caller makes on one Result
MaxClears == 1   \* clear_buffers() calls the caller makes on one Result

\* ------------------------------------------------------------- constants
SIGKILL == 9

Results == 1..NRes
Desc == 1..MaxDesc
Streams == {"stdout", "stderr"}
Killers == {"caller", "engine", "cleanup"}
Errors == {"OSError", "AttributeError", "ValueError"}

None == <<>>
Some(x) == <<x>>

NL == 0   \* the newline byte

\* The bytes the command writes to stream s, in order.  With MaxOut = 2 the
\* stdout script ends with a newline and the stderr script with a partial line.
Script(s) ==
  [i \in 1..MaxOut |->
     IF s = "stdout" THEN (IF i % 2 = 0 THEN NL ELSE i)
                     ELSE (IF i % 2 = 1 THEN NL ELSE 10 + i)]

VARIABLES
  cfg,              \* per Result: the invocation and what its command does
  expired,          \* per Result: the timeout passed and line 146 was reached
  knone,            \* per Result: the kill() of line 146 found proc None
  clears,           \* per Result: clear_buffers() calls the caller has made
  cwr,              \* per Result: what wr was when the last of them was made
  proc,             \* cmd_obj.proc: None or Some(pid)
  popen_rc,         \* cmd_obj.proc.returncode (the Popen object's own field)
  returncode,       \* cmd_obj.returncode
  total_time,       \* cmd_obj.total_time
  buf,              \* stdout_buf / stderr_buf: BytesIO [data, pos]
  pipe,             \* bytes written by the process and not yet read
  wr,               \* number of bytes the process has written per stream
  pid,              \* the pid the OS gave the tracked process (0: none yet)
  ps,               \* OS state of the tracked process
  pstatus,          \* wait status of the tracked process once it has ended
  ds,               \* OS state of each descendant
  cpc,              \* the caller of exec_cmd / async_cmd
  epc,              \* the thread running _exec_cmd
  tpc,              \* the thread running target()
  ppc,              \* the pump threads
  pline,            \* a pump's local variable line
  kpc,              \* the frames of kill(), one per kind of caller
  kall,             \* kill(): the list children(recursive=True) returned
  ki,               \* kill(): index of the for loop in that list
  ckills,           \* kill() calls the caller has made
  OBJS_TO_CLEANUP,
  clpc,             \* the thread running cleanup()
  clall,            \* cleanup(): list(OBJS_TO_CLEANUP)
  clsnap,           \* cleanup(): what the for loop has not yet visited of it
  clkills           \* kill() calls cleanup() has made per Result

hist == <<cfg, expired, knone, clears, cwr>>
resVars == <<proc, popen_rc, returncode, total_time>>
ioVars == <<buf, pipe, wr, ppc, pline>>
osVars == <<pid, ps, pstatus, ds>>
thrVars == <<cpc, epc, tpc>>
killVars == <<kpc, kall, ki>>
clVars == <<clpc, clall, clsnap, clkills>>
vars == <<hist, resVars, ioVars, osVars, thrVars, killVars, ckills,
          OBJS_TO_CLEANUP, clVars>>

\* ------------------------------------------------------------- helpers
RECURSIVE FirstNL(_, _)
\* index of the first newline of b at or after i, 0 when there is none
FirstNL(b, i) ==
  IF i > Len(b) THEN 0
  ELSE IF b[i] = NL THEN i ELSE FirstNL(b, i + 1)

\* The write ends of the pipes are held by the tracked process and inherited
\* by its descendants: a reader sees end-of-file once none of them runs.
EOF(r) == ps[r] # "running" /\ \A d \in Desc : ds[r][d] # "running"

\* The processes in the process table under pid p: at most one, since the OS
\* gives a new process a pid that is not in the table.
PidHolder(p) == {q \in Results : pid[q] = p /\ ps[q] \in {"running", "zombie"}}

\* self.proc.pid resolves to a process: the one Popen started, or after that
\* one has been reaped a later process that was given the same pid
Resolves(r) == PidHolder(pid[r]) # {}

\* the Result whose process self.proc.pid resolves to
Holder(r) == CHOOSE q \in PidHolder(pid[r]) : TRUE

\* the pids a new process started for r may get: one never used before, or
\* the pid of a process that has been reaped
FreePids(r) ==
  {r} \cup {p \in {pid[q] : q \in {x \in Results : ps[x] = "reaped"}} :
            PidHolder(p) = {}}

\* BytesIO.write(b) at the current position.
BytesIOWrite(io, b) ==
  LET p == io.pos
      n == Len(b)
      old == io.data
  IN [data |-> SubSeq(old, 1, p) \o b \o SubSeq(old, p + n + 1, Len(old)),
      pos |-> p + n]

\* BytesIO.seek(p)
BytesIOSeek(io, p) == [io EXCEPT !.pos = p]

\* BytesIO.truncate(): the size becomes the current position, which stays
BytesIOTruncate(io) == [io EXCEPT !.data = SubSeq(@, 1, io.pos)]

\* BytesIO.getvalue()
GetValue(io) == io.data

\* What the process has written to stream s so far.
Written(r, s) == SubSeq(Script(s), 1, wr[r][s])

RECURSIVE RemoveFirst(_, _)
\* list.remove(x) on a list that holds x
RemoveFirst(l, x) ==
  IF l = <<>> THEN <<>>
  ELSE IF Head(l) = x THEN Tail(l) ELSE <<Head(l)>> \o RemoveFirst(Tail(l), x)

InList(l, x) == \E i \in 1..Len(l) : l[i] = x

RECURSIVE SeqOfSet(_)
\* the elements of a set of numbers in ascending order (pids in pid order)
SeqOfSet(S) ==
  IF S = {} THEN <<>>
  ELSE LET m == CHOOSE x \in S : \A y \in S : x <= y
       IN <<m>> \o SeqOfSet(S \ {m})

\* ---------------------------------------------------------------- Init
Modes == {"none", "bare", "sync", "async"}

Inert == [mode |-> "none", timeout |-> FALSE, exits |-> FALSE,
          fails |-> FALSE, nd |-> 0, out |-> 0]

InitWith(C) ==
  /\ cfg \in C
  /\ expired = [r \in Results |-> FALSE]
  /\ knone = [r \in Results |-> FALSE]
  /\ clears = [r \in Results |-> 0]
  /\ cwr = [r \in Results |-> [s \in Streams |-> 0]]
  /\ proc = [r \in Results |-> None]
  /\ popen_rc = [r \in Results |-> None]
  /\ returncode = [r \in Results |-> None]
  /\ total_time = [r \in Results |-> None]
  /\ buf = [r \in Results |-> [s \in Streams |-> [data |-> <<>>, pos |-> 0]]]
  /\ pipe = [r \in Results |-> [s \in Streams |-> <<>>]]
  /\ wr = [r \in Results |-> [s \in Streams |-> 0]]
  /\ pid = [r \in Results |-> 0]
  /\ ps = [r \in Results |-> "none"]
  /\ pstatus = [r \in Results |-> None]
  /\ ds = [r \in Results |-> [d \in Desc |-> "none"]]
  /\ cpc = [r \in Results |->
              CASE cfg[r].mode = "none" -> "absent"
                [] cfg[r].mode = "bare" -> "returned"
                [] cfg[r].mode = "sync" -> "l156"
                [] OTHER -> "l161"]
  /\ epc = [r \in Results |-> "idle"]
  /\ tpc = [r \in Results |-> "idle"]
  /\ ppc = [r \in Results |-> [s \in Streams |-> "idle"]]
  /\ pline = [r \in Results |-> [s \in Streams |-> <<>>]]
  /\ kpc = [r \in Results |-> [k \in Killers |-> "idle"]]
  /\ kall = [r \in Results |-> [k \in Killers |-> <<>>]]
  /\ ki = [r \in Results |-> [k \in Killers |-> 0]]
  /\ ckills = [r \in Results |-> 0]
  /\ OBJS_TO_CLEANUP = <<>>
  /\ clpc = "idle"
  /\ clall = <<>>
  /\ clsnap = <<>>
  /\ clkills = [r \in Results |-> 0]

\* ------------------------------------------------- the operating system
\* The process writes the next byte of its script to a pipe.
ProcWrite(r, s) ==
  /\ ps[r] = "running"
  /\ wr[r][s] < cfg[r].out
  /\ wr' = [wr EXCEPT ![r][s] = @ + 1]
  /\ pipe' = [pipe EXCEPT ![r][s] = Append(@, Script(s)[wr[r][s] + 1])]
  /\ UNCHANGED <<hist, resVars, buf, ppc, pline, osVars, thrVars, killVars,
                 ckills, OBJS_TO_CLEANUP, clVars>>

\* The tracked process ends: it stays in the process table (a zombie) until
\* it is waited for; its zombie children go to init, which reaps them.
Ended(r, status) ==
  /\ ps' = [ps EXCEPT ![r] = "zombie"]
  /\ pstatus' = [pstatus EXCEPT ![r] = Some(status)]
  /\ ds' = [ds EXCEPT ![r] =
              [d \in Desc |-> IF @[d] = "zombie" THEN "gone" ELSE @[d]]]
  /\ UNCHANGED pid

\* The command finishes on its own, after writing all its output.
ProcExit(r) ==
  /\ ps[r] = "running"
  /\ cfg[r].exits
  /\ \A s \in Streams : wr[r][s] = cfg[r].out
  /\ Ended(r, 0)
  /\ UNCHANGED <<hist, resVars, ioVars, thrVars, killVars, ckills,
                 OBJS_TO_CLEANUP, clVars>>

\* A descendant ends: a zombie while its ancestor lives and has not waited for
\* it, gone at once when it is an orphan (init reaps it).
DescEnded(r, d) == IF ps[r] = "running" THEN "zombie" ELSE "gone"

DescExit(r, d) ==
  /\ ds[r][d] = "running"
  /\ ds' = [ds EXCEPT ![r][d] = DescEnded(r, d)]
  /\ UNCHANGED <<hist, resVars, ioVars, pid, ps, pstatus, thrVars, killVars,
                 ckills, OBJS_TO_CLEANUP, clVars>>

\* The tracked process waits for a child that has ended: the pid is free.
DescReap(r, d) ==
  /\ ds[r][d] = "zombie"
  /\ ps[r] = "running"
  /\ ds' = [ds EXCEPT ![r][d] = "gone"]
  /\ UNCHANGED <<hist, resVars, ioVars, pid, ps, pstatus, thrVars, killVars,
                 ckills, OBJS_TO_CLEANUP, clVars>>

\* a pump that treats a last line with no newline as the end of the stream
PumpRead_DropsLastLine(r, s) ==
  /\ ppc[r][s] = "l28"
  /\ LET b == pipe[r][s]
         n == FirstNL(b, 1)
     IN \/ /\ n > 0
           /\ pline' = [pline EXCEPT ![r][s] = SubSeq(b, 1, n)]
           /\ pipe' = [pipe EXCEPT ![r][s] = SubSeq(b, n + 1, Len(b))]
           /\ ppc' = [ppc EXCEPT ![r][s] = "l29"]
        \/ /\ n = 0 /\ EOF(r)
           /\ ppc' = [ppc EXCEPT ![r][s] = "done"]
           /\ UNCHANGED <<pline, pipe>>
  /\ UNCHANGED <<hist, resVars, buf, wr, osVars, thrVars, killVars, ckills,
                 OBJS_TO_CLEANUP, clVars>>

\* ---------------------------------------------------------- read_pipe
\* pipe.readline(): a line up to and including its newline; at end-of-file
\* the rest, and b"" when nothing is left, which ends the loop.
PumpRead(r, s) ==
  /\ ppc[r][s] = "l28"
  /\ LET b == pipe[r][s]
         n == FirstNL(b, 1)
     IN \/ /\ n > 0
           /\ pline' = [pline EXCEPT ![r][s] = SubSeq(b, 1, n)]
           /\ pipe' = [pipe EXCEPT ![r][s] = SubSeq(b, n + 1, Len(b))]
           /\ ppc' = [ppc EXCEPT ![r][s] = "l29"]
        \/ /\ n = 0 /\ EOF(r) /\ b # <<>>
           /\ pline' = [pline EXCEPT ![r][s] = b]
           /\ pipe' = [pipe EXCEPT ![r][s] = <<>>]
           /\ ppc' = [ppc EXCEPT ![r][s] = "l29"]
        \/ /\ n = 0 /\ EOF(r) /\ b = <<>>
           /\ ppc' = [ppc EXCEPT ![r][s] = "done"]
           /\ UNCHANGED <<pline, pipe>>
  /\ UNCHANGED <<hist, resVars, buf, wr, osVars, thrVars, killVars, ckills,
                 OBJS_TO_CLEANUP, clVars>>

\* a pump that writes every line at the start of the buffer
PumpWrite_Rewinds(r, s) ==
  /\ ppc[r][s] = "l29"
  /\ buf' = [buf EXCEPT ![r][s] = BytesIOWrite(BytesIOSeek(@, 0), pline[r][s])]
  /\ pline' = [pline EXCEPT ![r][s] = <<>>]
  /\ ppc' = [ppc EXCEPT ![r][s] = "l28"]
  /\ UNCHANGED <<hist, resVars, pipe, wr, osVars, thrVars, killVars, ckills,
                 OBJS_TO_CLEANUP, clVars>>

\* fp_out.write(line)
PumpWrite(r, s) ==
  /\ ppc[r][s] = "l29"
  /\ buf' = [buf EXCEPT ![r][s] = BytesIOWrite(@, pline[r][s])]
  /\ pline' = [pline EXCEPT ![r][s] = <<>>]
  /\ ppc' = [ppc EXCEPT ![r][s] = "l28"]
  /\ UNCHANGED <<hist, resVars, pipe, wr, osVars, thrVars, killVars, ckills,
                 OBJS_TO_CLEANUP, clVars>>

\* ------------------------------------------- _exec_cmd.target (126-138)
\* subprocess.Popen(cmd, **kwargs): the process exists (with the processes it
\* starts) before the attribute cmd_obj.proc is stored; or Popen raises.
TargetPopen(r) ==
  /\ tpc[r] = "l133"
  /\ IF cfg[r].fails
     THEN /\ tpc' = [tpc EXCEPT ![r] = "OSError"]
          /\ UNCHANGED osVars
     ELSE /\ tpc' = [tpc EXCEPT ![r] = "l133s"]
          /\ \E p \in FreePids(r) : pid' = [pid EXCEPT ![r] = p]
          /\ ps' = [ps EXCEPT ![r] = "running"]
          /\ ds' = [ds EXCEPT ![r] =
                      [d \in Desc |-> IF d <= cfg[r].nd THEN "running" ELSE "none"]]
          /\ UNCHANGED pstatus
  /\ UNCHANGED <<hist, resVars, ioVars, cpc, epc, killVars, ckills,
                 OBJS_TO_CLEANUP, clVars>>

\* cmd_obj.proc = <the Popen object>
TargetStoreProc(r) ==
  /\ tpc[r] = "l133s"
  /\ proc' = [proc EXCEPT ![r] = Some(pid[r])]
  /\ tpc' = [tpc EXCEPT ![r] = "l134"]
  /\ UNCHANGED <<hist, popen_rc, returncode, total_time, ioVars, osVars, cpc,
                 epc, killVars, ckills, OBJS_TO_CLEANUP, clVars>>

\* tout = read_pipe(...); terr = read_pipe(...): each starts a pump thread
TargetReadPipe(r, s) ==
  /\ \/ tpc[r] = "l134" /\ s = "stdout" /\ tpc' = [tpc EXCEPT ![r] = "l135"]
     \/ tpc[r] = "l135" /\ s = "stderr" /\ tpc' = [tpc EXCEPT ![r] = "l136"]
  /\ ppc' = [ppc EXCEPT ![r][s] = "l28"]
  /\ UNCHANGED <<hist, resVars, buf, pipe, wr, pline, osVars, cpc, epc,
                 killVars, ckills, OBJS_TO_CLEANUP, clVars>>

\* cmd_obj.proc.wait(): blocks until the process has ended, reaps it (the pid
\* no longer resolves) and sets the Popen object's returncode.
TargetWait(r) ==
  /\ tpc[r] = "l136"
  /\ ps[r] = "zombie"
  /\ ps' = [ps EXCEPT ![r] = "reaped"]
  /\ popen_rc' = [popen_rc EXCEPT ![r] = pstatus[r]]
  /\ tpc' = [tpc EXCEPT ![r] = "l136s"]
  /\ UNCHANGED <<hist, proc, returncode, total_time, ioVars, pid, pstatus, ds,
                 cpc, epc, killVars, ckills, OBJS_TO_CLEANUP, clVars>>

\* cmd_obj.returncode = <what wait() returned>
TargetStoreReturncode(r) ==
  /\ tpc[r] = "l136s"
  /\ returncode' = [returncode EXCEPT ![r] = popen_rc[r]]
  /\ tpc' = [tpc EXCEPT ![r] = "l137"]
  /\ UNCHANGED <<hist, proc, popen_rc, total_time, ioVars, osVars, cpc, epc,
                 killVars, ckills, OBJS_TO_CLEANUP, clVars>>

\* tout.join(); terr.join()
TargetJoin(r, s) ==
  /\ \/ tpc[r] = "l137" /\ s = "stdout" /\ tpc' = [tpc EXCEPT ![r] = "l138"]
     \/ tpc[r] = "l138" /\ s = "stderr" /\ tpc' = [tpc EXCEPT ![r] = "done"]
  /\ ppc[r][s] = "done"
  /\ UNCHANGED <<hist, resVars, ioVars, osVars, cpc, epc, killVars, ckills,
                 OBJS_TO_CLEANUP, clVars>>

\* the thread running target() is no longer alive (returned, or died raising)
TargetOver(r) == tpc[r] \in {"done"} \cup Errors

\* ------------------------------------------------------ kill (91-106)
\* if self.proc is None: return
KillCheckProc(r, k) ==
  /\ kpc[r][k] = "l92"
  /\ kpc' = [kpc EXCEPT ![r][k] = IF proc[r] = None THEN "ret" ELSE "l100"]
  /\ knone' = [knone EXCEPT ![r] = @ \/ (k = "engine" /\ proc[r] = None)]
  /\ UNCHANGED <<cfg, expired, clears, cwr, resVars, ioVars, osVars, thrVars,
                 kall, ki, ckills, OBJS_TO_CLEANUP, clVars>>

\* What children(recursive=True) lists for the process of Result q: the
\* descendants that are still in the process table below it, each as <<q, d>>.
\* Once the process has ended they are orphans and no longer below it.
Children(q) ==
  IF ps[q] = "running"
  THEN LET l == SeqOfSet({d \in Desc : ds[q][d] \in {"running", "zombie"}})
       IN [i \in 1..Len(l) |-> <<q, l[i]>>]
  ELSE <<>>

\* psutil.Process(self.proc.pid).children(recursive=True): NoSuchProcess when
\* the pid no longer resolves, caught by the except clause.
KillEnumerate(r, k) ==
  /\ kpc[r][k] = "l100"
  /\ IF ~Resolves(r)
     THEN /\ kpc' = [kpc EXCEPT ![r][k] = "l105"]
          /\ UNCHANGED <<kall, ki>>
     ELSE /\ kall' = [kall EXCEPT ![r][k] = Children(Holder(r))]
          /\ ki' = [ki EXCEPT ![r][k] = 1]
          /\ kpc' = [kpc EXCEPT ![r][k] = "l101"]
  /\ UNCHANGED <<hist, resVars, ioVars, osVars, thrVars, ckills,
                 OBJS_TO_CLEANUP, clVars>>

\* os.kill(proc.pid, sig) for the next listed descendant: ProcessLookupError
\* when that pid no longer resolves, which leaves the try block.
KillSignalChild(r, k) ==
  /\ kpc[r][k] = "l101"
  /\ ki[r][k] <= Len(kall[r][k])
  /\ LET q == kall[r][k][ki[r][k]][1]
         d == kall[r][k][ki[r][k]][2]
     IN IF ds[q][d] = "gone"
        THEN /\ kpc' = [kpc EXCEPT ![r][k] = "l105"]
             /\ UNCHANGED <<ki, ds>>
        ELSE /\ ds' = [ds EXCEPT ![q][d] =
                         IF @ = "running" THEN DescEnded(q, d) ELSE @]
             /\ ki' = [ki EXCEPT ![r][k] = @ + 1]
             /\ UNCHANGED kpc
  /\ UNCHANGED <<hist, resVars, ioVars, pid, ps, pstatus, thrVars, kall, ckills,
                 OBJS_TO_CLEANUP, clVars>>

\* os.kill(self.proc.pid, sig), reached when the loop is exhausted:
\* ProcessLookupError (caught) when the pid does not resolve; no effect on a
\* zombie; a running process under that pid ends with status -SIGKILL.
KillSignalSelf(r, k) ==
  /\ kpc[r][k] = "l101"
  /\ ki[r][k] > Len(kall[r][k])
  /\ IF Resolves(r) /\ ps[Holder(r)] = "running"
     THEN Ended(Holder(r), 0 - SIGKILL)
     ELSE UNCHANGED osVars
  /\ kpc' = [kpc EXCEPT ![r][k] = "l105"]
  /\ UNCHANGED <<hist, resVars, ioVars, thrVars, kall, ki, ckills,
                 OBJS_TO_CLEANUP, clVars>>

\* kill() without the membership test of line 105
KillMember_NoTest(r, k) ==
  /\ kpc[r][k] = "l105"
  /\ kpc' = [kpc EXCEPT ![r][k] = "l106"]
  /\ UNCHANGED <<hist, resVars, ioVars, osVars, thrVars, kall, ki, ckills,
                 OBJS_TO_CLEANUP, clVars>>

\* if self in OBJS_TO_CLEANUP:
KillMember(r, k) ==
  /\ kpc[r][k] = "l105"
  /\ kpc' = [kpc EXCEPT ![r][k] =
               IF InList(OBJS_TO_CLEANUP, r) THEN "l106" ELSE "ret"]
  /\ UNCHANGED <<hist, resVars, ioVars, osVars, thrVars, kall, ki, ckills,
                 OBJS_TO_CLEANUP, clVars>>

\* OBJS_TO_CLEANUP.remove(self): ValueError when self is not in the list
KillRemove(r, k) ==
  /\ kpc[r][k] = "l106"
  /\ IF InList(OBJS_TO_CLEANUP, r)
     THEN /\ OBJS_TO_CLEANUP' = RemoveFirst(OBJS_TO_CLEANUP, r)
          /\ kpc' = [kpc EXCEPT ![r][k] = "ret"]
     ELSE /\ kpc' = [kpc EXCEPT ![r][k] = "ValueError"]
          /\ UNCHANGED OBJS_TO_CLEANUP
  /\ UNCHANGED <<hist, resVars, ioVars, osVars, thrVars, kall, ki, ckills,
                 clVars>>

\* is_running (62-70): os.getpgid(pid) succeeds while the pid is in the process
\* table, a zombie included
is_running(r) == proc[r] # None /\ Resolves(r)

\* kill() is over for its caller: it returned or raised
KillOver(r, k) == kpc[r][k] \in {"ret", "ValueError"}

\* the frame of kill() is dropped
KillFrameDropped(r, k) ==
  /\ kpc' = [kpc EXCEPT ![r][k] = "idle"]
  /\ kall' = [kall EXCEPT ![r][k] = <<>>]
  /\ ki' = [ki EXCEPT ![r][k] = 0]

\* ------------------------------------------------- _exec_cmd (120-152)
\* lines 121-124, and the branch of line 140: without a timeout target() is
\* called in this thread
ExecBegin(r) ==
  /\ epc[r] = "l121"
  /\ IF cfg[r].timeout
     THEN /\ epc' = [epc EXCEPT ![r] = "l141"]
          /\ UNCHANGED tpc
     ELSE /\ epc' = [epc EXCEPT ![r] = "l149"]
          /\ tpc' = [tpc EXCEPT ![r] = "l133"]
  /\ UNCHANGED <<hist, resVars, ioVars, osVars, cpc, killVars, ckills,
                 OBJS_TO_CLEANUP, clVars>>

\* line 149: target() returns, or the exception it raised propagates
ExecTargetReturn(r) ==
  /\ epc[r] = "l149"
  /\ TargetOver(r)
  /\ epc' = [epc EXCEPT ![r] = IF tpc[r] = "done" THEN "l150" ELSE tpc[r]]
  /\ UNCHANGED <<hist, resVars, ioVars, osVars, cpc, tpc, killVars, ckills,
                 OBJS_TO_CLEANUP, clVars>>

\* lines 141-143: thread.start()
ExecStartThread(r) ==
  /\ epc[r] = "l141"
  /\ tpc' = [tpc EXCEPT ![r] = "l133"]
  /\ epc' = [epc EXCEPT ![r] = "l144"]
  /\ UNCHANGED <<hist, resVars, ioVars, osVars, cpc, killVars, ckills,
                 OBJS_TO_CLEANUP, clVars>>

\* lines 144-145: thread.join(timeout) returns because the thread ended, and
\* is_alive() is False
ExecJoinedInTime(r) ==
  /\ epc[r] = "l144"
  /\ TargetOver(r)
  /\ epc' = [epc EXCEPT ![r] = "l150"]
  /\ UNCHANGED <<hist, resVars, ioVars, osVars, cpc, tpc, killVars, ckills,
                 OBJS_TO_CLEANUP, clVars>>

\* lines 144-146: the timeout passes (whatever its value, at any point of the
\* thread's progress), is_alive() is True and kill() is called
ExecTimeout(r) ==
  /\ epc[r] = "l144"
  /\ ~TargetOver(r)
  /\ epc' = [epc EXCEPT ![r] = "l146"]
  /\ kpc' = [kpc EXCEPT ![r]["engine"] = "l92"]
  /\ expired' = [expired EXCEPT ![r] = TRUE]
  /\ UNCHANGED <<cfg, knone, clears, cwr, resVars, ioVars, osVars, cpc, tpc,
                 kall, ki, ckills, OBJS_TO_CLEANUP, clVars>>

\* line 146: kill() returns, or its ValueError propagates out of _exec_cmd
ExecKillReturn(r) ==
  /\ epc[r] = "l146"
  /\ KillOver(r, "engine")
  /\ epc' = [epc EXCEPT ![r] =
               IF kpc[r]["engine"] = "ret" THEN "l147" ELSE "ValueError"]
  /\ KillFrameDropped(r, "engine")
  /\ UNCHANGED <<hist, resVars, ioVars, osVars, cpc, tpc, ckills,
                 OBJS_TO_CLEANUP, clVars>>

\* line 147: thread.join()
ExecJoin(r) ==
  /\ epc[r] = "l147"
  /\ TargetOver(r)
  /\ epc' = [epc EXCEPT ![r] = "l150"]
  /\ UNCHANGED <<hist, resVars, ioVars, osVars, cpc, tpc, killVars, ckills,
                 OBJS_TO_CLEANUP, clVars>>

\* a line 150 that reports success whatever the process ended with
ExecStoreReturncode_Zero(r) ==
  /\ epc[r] = "l150"
  /\ IF proc[r] = None
     THEN /\ epc' = [epc EXCEPT ![r] = "AttributeError"]
          /\ UNCHANGED returncode
     ELSE /\ returncode' = [returncode EXCEPT ![r] = Some(0)]
          /\ epc' = [epc EXCEPT ![r] = "l151"]
  /\ UNCHANGED <<hist, proc, popen_rc, total_time, ioVars, osVars, cpc, tpc,
                 killVars, ckills, OBJS_TO_CLEANUP, clVars>>

\* line 150: cmd_obj.returncode = cmd_obj.proc.returncode; AttributeError
\* when cmd_obj.proc is None
ExecStoreReturncode(r) ==
  /\ epc[r] = "l150"
  /\ IF proc[r] = None
     THEN /\ epc' = [epc EXCEPT ![r] = "AttributeError"]
          /\ UNCHANGED returncode
     ELSE /\ returncode' = [returncode EXCEPT ![r] = popen_rc[r]]
          /\ epc' = [epc EXCEPT ![r] = "l151"]
  /\ UNCHANGED <<hist, proc, popen_rc, total_time, ioVars, osVars, cpc, tpc,
                 killVars, ckills, OBJS_TO_CLEANUP, clVars>>

\* lines 151-152: cmd_obj.total_time = time.time() - start; return cmd_obj
ExecStoreTime(r) ==
  /\ epc[r] = "l151"
  /\ total_time' = [total_time EXCEPT ![r] = Some("elapsed")]
  /\ epc' = [epc EXCEPT ![r] = "return"]
  /\ UNCHANGED <<hist, proc, popen_rc, returncode, ioVars, osVars, cpc, tpc,
                 killVars, ckills, OBJS_TO_CLEANUP, clVars>>

\* ---------------------------------------------------- exec_cmd (155-157)
\* obj = cls._exec_cmd(...), in the caller's thread
ExecCmdCall(r) ==
  /\ cpc[r] = "l156"
  /\ cpc' = [cpc EXCEPT ![r] = "l156w"]
  /\ epc' = [epc EXCEPT ![r] = "l121"]
  /\ UNCHANGED <<hist, resVars, ioVars, osVars, tpc, killVars, ckills,
                 OBJS_TO_CLEANUP, clVars>>

\* return obj, or the exception of _exec_cmd reaches the caller
ExecCmdReturn(r) ==
  /\ cpc[r] = "l156w"
  /\ epc[r] \in {"return"} \cup Errors
  /\ cpc' = [cpc EXCEPT ![r] = IF epc[r] = "return" THEN "returned" ELSE epc[r]]
  /\ UNCHANGED <<hist, resVars, ioVars, osVars, epc, tpc, killVars, ckills,
                 OBJS_TO_CLEANUP, clVars>>

\* --------------------------------------------------- async_cmd (160-169)
\* obj = CLIResponse(cmd); the thread running _exec_cmd is started
AsyncCmdStart(r) ==
  /\ cpc[r] = "l161"
  /\ cpc' = [cpc EXCEPT ![r] = "l166"]
  /\ epc' = [epc EXCEPT ![r] = "l121"]
  /\ UNCHANGED <<hist, resVars, ioVars, osVars, tpc, killVars, ckills,
                 OBJS_TO_CLEANUP, clVars>>

\* async_cmd without the loop of lines 166-167
AsyncCmdPoll_NoWait(r) ==
  /\ cpc[r] = "l166"
  /\ cpc' = [cpc EXCEPT ![r] = "l168"]
  /\ UNCHANGED <<hist, resVars, ioVars, osVars, epc, tpc, killVars, ckills,
                 OBJS_TO_CLEANUP, clVars>>

\* while obj.proc is None: time.sleep(.001)  -- the loop is left
AsyncCmdPoll(r) ==
  /\ cpc[r] = "l166"
  /\ proc[r] # None
  /\ cpc' = [cpc EXCEPT ![r] = "l168"]
  /\ UNCHANGED <<hist, resVars, ioVars, osVars, epc, tpc, killVars, ckills,
                 OBJS_TO_CLEANUP, clVars>>

\* an async_cmd that registers its Result twice
AsyncCmdAppend_Twice(r) ==
  /\ cpc[r] = "l168"
  /\ OBJS_TO_CLEANUP' = Append(Append(OBJS_TO_CLEANUP, r), r)
  /\ cpc' = [cpc EXCEPT ![r] = "returned"]
  /\ UNCHANGED <<hist, resVars, ioVars, osVars, epc, tpc, killVars, ckills,
                 clVars>>

\* OBJS_TO_CLEANUP.append(obj); return obj
AsyncCmdAppend(r) ==
  /\ cpc[r] = "l168"
  /\ OBJS_TO_CLEANUP' = Append(OBJS_TO_CLEANUP, r)
  /\ cpc' = [cpc EXCEPT ![r] = "returned"]
  /\ UNCHANGED <<hist, resVars, ioVars, osVars, epc, tpc, killVars, ckills,
                 clVars>>

\* ------------------------------------------- the caller holding a Result
\* obj.kill()
CallerKill(r) ==
  /\ cpc[r] = "returned"
  /\ ckills[r] < MaxKills
  /\ cpc' = [cpc EXCEPT ![r] = "kill"]
  /\ kpc' = [kpc EXCEPT ![r]["caller"] = "l92"]
  /\ ckills' = [ckills EXCEPT ![r] = @ + 1]
  /\ UNCHANGED <<hist, resVars, ioVars, osVars, epc, tpc, kall, ki,
                 OBJS_TO_CLEANUP, clVars>>

CallerKillReturn(r) ==
  /\ cpc[r] = "kill"
  /\ KillOver(r, "caller")
  /\ cpc' = [cpc EXCEPT ![r] =
               IF kpc[r]["caller"] = "ret" THEN "returned" ELSE "ValueError"]
  /\ KillFrameDropped(r, "caller")
  /\ UNCHANGED <<hist, resVars, ioVars, osVars, epc, tpc, ckills,
                 OBJS_TO_CLEANUP, clVars>>

\* obj.clear_buffers() (111-115)
CallerClear(r) ==
  /\ cpc[r] = "returned"
  /\ clears[r] < MaxClears
  /\ cpc' = [cpc EXCEPT ![r] = "l112"]
  /\ clears' = [clears EXCEPT ![r] = @ + 1]
  /\ cwr' = [cwr EXCEPT ![r] = wr[r]]
  /\ UNCHANGED <<cfg, expired, knone, resVars, ioVars, osVars, epc, tpc,
                 killVars, ckills, OBJS_TO_CLEANUP, clVars>>

\* self.stdout_buf.seek(0) / self.stderr_buf.seek(0)
ClearSeek(r, s) ==
  /\ \/ cpc[r] = "l112" /\ s = "stdout" /\ cpc' = [cpc EXCEPT ![r] = "l113"]
     \/ cpc[r] = "l114" /\ s = "stderr" /\ cpc' = [cpc EXCEPT ![r] = "l115"]
  /\ buf' = [buf EXCEPT ![r][s] = BytesIOSeek(@, 0)]
  /\ UNCHANGED <<hist, resVars, pipe, wr, ppc, pline, osVars, epc, tpc,
                 killVars, ckills, OBJS_TO_CLEANUP, clVars>>

\* self.stdout_buf.truncate() / self.stderr_buf.truncate(), after the second
\* of which clear_buffers returns
ClearTruncate(r, s) ==
  /\ \/ cpc[r] = "l113" /\ s = "stdout" /\ cpc' = [cpc EXCEPT ![r] = "l114"]
     \/ cpc[r] = "l115" /\ s = "stderr" /\ cpc' = [cpc EXCEPT ![r] = "returned"]
  /\ buf' = [buf EXCEPT ![r][s] = BytesIOTruncate(@)]
  /\ UNCHANGED <<hist, resVars, pipe, wr, ppc, pline, osVars, epc, tpc,
                 killVars, ckills, OBJS_TO_CLEANUP, clVars>>

\* ------------------------------------------------------ cleanup (18-20)
\* list(OBJS_TO_CLEANUP)
CleanupStart ==
  /\ clpc = "idle"
  /\ clall' = OBJS_TO_CLEANUP
  /\ clsnap' = OBJS_TO_CLEANUP
  /\ clpc' = "l19"
  /\ UNCHANGED <<hist, resVars, ioVars, osVars, thrVars, killVars, ckills,
                 OBJS_TO_CLEANUP, clkills>>

\* for obj in ...: obj.kill() is called, or the loop is over
CleanupNext ==
  /\ clpc = "l19"
  /\ IF clsnap = <<>>
     THEN /\ clpc' = "done"
          /\ UNCHANGED <<kpc, clkills>>
     ELSE /\ clpc' = "l20"
          /\ kpc' = [kpc EXCEPT ![Head(clsnap)]["cleanup"] = "l92"]
          /\ clkills' = [clkills EXCEPT ![Head(clsnap)] = @ + 1]
  /\ UNCHANGED <<hist, resVars, ioVars, osVars, thrVars, kall, ki, ckills,
                 OBJS_TO_CLEANUP, clall, clsnap>>

\* obj.kill() returns, or its ValueError ends cleanup()
CleanupKillReturn ==
  /\ clpc = "l20"
  /\ KillOver(Head(clsnap), "cleanup")
  /\ IF kpc[Head(clsnap)]["cleanup"] = "ret"
     THEN /\ clpc' = "l19"
          /\ clsnap' = Tail(clsnap)
     ELSE /\ clpc' = "ValueError"
          /\ UNCHANGED clsnap
  /\ KillFrameDropped(Head(clsnap), "cleanup")
  /\ UNCHANGED <<hist, resVars, ioVars, osVars, thrVars, ckills,
                 OBJS_TO_CLEANUP, clall, clkills>>

\* ------------------------------------------------------ specifications
Bools == {TRUE, FALSE}

\* the invocations of one Result (Result 1), the other Results absent
One(C) == {[r \in Results |-> IF r = 1 THEN c ELSE Inert] : c \in C}

\* a Result constructed by the caller, with no process
Bare == [Inert EXCEPT !.mode = "bare"]

Kill(r, k) ==
  \/ KillCheckProc(r, k)
  \/ KillEnumerate(r, k)
  \/ KillSignalChild(r, k)
  \/ KillSignalSelf(r, k)
  \/ KillMember(r, k)
  \/ KillRemove(r, k)

System(r) ==
  \/ \E s \in Streams : ProcWrite(r, s)
  \/ ProcExit(r)
  \/ \E d \in Desc : DescExit(r, d)
  \/ \E d \in Desc : DescReap(r, d)

Pumps(r) ==
  \/ \E s \in Streams : PumpRead(r, s)
  \/ \E s \in Streams : PumpWrite(r, s)

Target(r) ==
  \/ TargetPopen(r)
  \/ TargetStoreProc(r)
  \/ \E s \in Streams : TargetReadPipe(r, s)
  \/ TargetWait(r)
  \/ TargetStoreReturncode(r)
  \/ \E s \in Streams : TargetJoin(r, s)

ExecNoTimeout(r) ==
  \/ ExecBegin(r)
  \/ ExecTargetReturn(r)
  \/ ExecStoreReturncode(r)
  \/ ExecStoreTime(r)

ExecWithTimeout(r) ==
  \/ ExecStartThread(r)
  \/ ExecJoinedInTime(r)
  \/ ExecTimeout(r)
  \/ ExecKillReturn(r)
  \/ ExecJoin(r)

Cleanup ==
  \/ CleanupStart
  \/ CleanupNext
  \/ CleanupKillReturn

\* -- SpecKill: one Result, no timeout; the caller calls kill() on the Result
\* it holds, one call after the other.
KillCfgs ==
  {Bare} \cup
  [mode : {"sync", "async"}, timeout : {FALSE}, exits : Bools,
   fails : {FALSE}, nd : 0..MaxDesc, out : {0, MaxOut}]

InitKill == InitWith(One(KillCfgs))

NextKill ==
  \E r \in Results :
    \/ System(r) \/ Pumps(r) \/ Target(r)
    \/ ExecNoTimeout(r)
    \/ ExecCmdCall(r) \/ ExecCmdReturn(r)
    \/ AsyncCmdStart(r) \/ AsyncCmdPoll(r) \/ AsyncCmdAppend(r)
    \/ CallerKill(r) \/ CallerKillReturn(r)
    \/ Kill(r, "caller")

SpecKill == InitKill /\ [][NextKill]_vars

\* -- SpecExec: one call of exec_cmd or async_cmd, with or without a timeout,
\* of a command that starts or fails to start; nobody else touches the Result.
ExecCfgs ==
  [mode : {"sync", "async"}, timeout : Bools, exits : Bools,
   fails : {FALSE}, nd : 0..MaxDesc, out : {0, MaxOut}]
  \cup
  [mode : {"sync", "async"}, timeout : Bools, exits : {FALSE},
   fails : {TRUE}, nd : {0}, out : {0}]

InitExec == InitWith(One(ExecCfgs))

NextExec ==
  \E r \in Results :
    \/ System(r) \/ Pumps(r) \/ Target(r)
    \/ ExecNoTimeout(r) \/ ExecWithTimeout(r)
    \/ ExecCmdCall(r) \/ ExecCmdReturn(r)
    \/ AsyncCmdStart(r) \/ AsyncCmdPoll(r) \/ AsyncCmdAppend(r)
    \/ Kill(r, "engine")

SpecExec == InitExec /\ [][NextExec]_vars

\* -- SpecCleanup: asynchronous invocations, without a timeout, of commands
\* that never exit on their own, and cleanup() called once, at any moment.
CleanupCfgs ==
  [mode : {"async"}, timeout : {FALSE}, exits : {FALSE},
   fails : {FALSE}, nd : 0..MaxDesc, out : {0}]

InitCleanup == InitWith([Results -> CleanupCfgs])

NextCleanup ==
  \/ \E r \in Results :
       \/ \E d \in Desc : DescExit(r, d)
       \/ \E d \in Desc : DescReap(r, d)
       \/ \E s \in Streams : PumpRead(r, s)
       \/ Target(r)
       \/ ExecNoTimeout(r)
       \/ AsyncCmdStart(r) \/ AsyncCmdPoll(r) \/ AsyncCmdAppend(r)
       \/ Kill(r, "cleanup")
  \/ Cleanup

SpecCleanup == InitCleanup /\ [][NextCleanup]_vars

\* -- SpecRace: one asynchronous invocation, with or without a timeout, whose
\* Result is killed by its holder, by the timeout path and by cleanup(), in
\* any order and at the same time.
RaceCfgs ==
  [mode : {"async"}, timeout : Bools, exits : Bools,
   fails : {FALSE}, nd : {0}, out : {0}]

InitRace == InitWith(One(RaceCfgs))

NextRace ==
  \/ \E r \in Results :
       \/ ProcExit(r)
       \/ \E s \in Streams : PumpRead(r, s)
       \/ Target(r)
       \/ ExecNoTimeout(r) \/ ExecWithTimeout(r)
       \/ AsyncCmdStart(r) \/ AsyncCmdPoll(r) \/ AsyncCmdAppend(r)
       \/ CallerKill(r) \/ CallerKillReturn(r)
       \/ \E k \in Killers :
            \/ KillCheckProc(r, k)
            \/ KillEnumerate(r, k)
            \/ KillSignalSelf(r, k)
            \/ KillMember(r, k)
            \/ KillRemove(r, k)
  \/ Cleanup

SpecRace == InitRace /\ [][NextRace]_vars

\* -- SpecClear: one asynchronous invocation, without a timeout, of a command
\* that writes to both streams; the holder of the Result calls clear_buffers()
\* at any moment.
ClearCfgs ==
  [mode : {"async"}, timeout : {FALSE}, exits : Bools,
   fails : {FALSE}, nd : {0}, out : {MaxOut}]

InitClear == InitWith(One(ClearCfgs))

NextClear ==
  \E r \in Results :
    \/ \E s \in Streams : ProcWrite(r, s)
    \/ ProcExit(r)
    \/ Pumps(r) \/ Target(r)
    \/ ExecNoTimeout(r)
    \/ AsyncCmdStart(r) \/ AsyncCmdPoll(r) \/ AsyncCmdAppend(r)
    \/ CallerClear(r)
    \/ \E s \in Streams : ClearSeek(r, s)
    \/ \E s \in Streams : ClearTruncate(r, s)

SpecClear == InitClear /\ [][NextClear]_vars

\* -- SpecFrame: two invocations side by side.  Result 1 is of an asynchronous
\* invocation of a command that exits on its own, and its holder calls kill()
\* on it; Result 2 is of exec_cmd with a timeout, of a command that writes one
\* byte to each stream and exits on its own, before the timeout passes or not.
FrameCfgs ==
  {[r \in Results |->
      CASE r = 1 -> [mode |-> "async", timeout |-> FALSE, exits |-> TRUE,
                     fails |-> FALSE, nd |-> 0, out |-> 0]
        [] r = 2 -> [mode |-> "sync", timeout |-> TRUE, exits |-> TRUE,
                     fails |-> FALSE, nd |-> 0, out |-> 1]
        [] OTHER -> Inert]}

InitFrame == InitWith(FrameCfgs)

NextFrame ==
  \E r \in Results :
    \/ \E s \in Streams : ProcWrite(r, s)
    \/ ProcExit(r)
    \/ Pumps(r) \/ Target(r)
    \/ ExecNoTimeout(r) \/ ExecWithTimeout(r)
    \/ ExecCmdCall(r) \/ ExecCmdReturn(r)
    \/ AsyncCmdStart(r) \/ AsyncCmdPoll(r) \/ AsyncCmdAppend(r)
    \/ (r = 1 /\ CallerKill(r)) \/ CallerKillReturn(r)
    \/ \E k \in {"caller", "engine"} :
         \/ KillCheckProc(r, k)
         \/ KillEnumerate(r, k)
         \/ KillSignalSelf(r, k)
         \/ KillMember(r, k)
         \/ KillRemove(r, k)

SpecFrame == InitFrame /\ [][NextFrame]_vars

\* The threads of the program; the interpreter schedules every thread that
\* can run.  Nothing is assumed of the processes, which run as they like.
ThreadsExec ==
  \E r \in Results :
    \/ Pumps(r) \/ Target(r)
    \/ ExecNoTimeout(r) \/ ExecWithTimeout(r)
    \/ ExecCmdCall(r) \/ ExecCmdReturn(r)
    \/ AsyncCmdStart(r) \/ AsyncCmdPoll(r) \/ AsyncCmdAppend(r)
    \/ Kill(r, "engine")

FairSpecExec == SpecExec /\ WF_vars(ThreadsExec)

\* ------------------------------------------------------------ claims
\* a process that is running (a zombie is in the process table, not alive)
Alive(r) == ps[r] = "running"
DescAlive(r, d) == ds[r][d] = "running"

\* kill() is past its try block (lines 99-104), in a call that found a process
PastSignals(r, k) == kpc[r][k] \in {"l105", "l106"}

\* C1: once a call of kill() on a Result with an attached process is past its
\* signalling, neither the tracked process nor any descendant that the call
\* enumerated is alive, whatever the descendants did in between.
C1_KillLeavesNoneAlive ==
  \A r \in Results : \A k \in Killers :
    PastSignals(r, k) =>
      /\ ~Alive(r)
      /\ \A i \in 1..Len(kall[r][k]) :
           ~DescAlive(kall[r][k][i][1], kall[r][k][i][2])

\* The call of exec_cmd / async_cmd has handed its Result to the caller.
Returned(r) == cpc[r] \in {"returned", "kill"}

\* the case of C2: exec_cmd with a timeout, of a command that starts and never
\* exits on its own
C2_Case(r) ==
  cfg[r].mode = "sync" /\ cfg[r].timeout /\ ~cfg[r].exits /\ ~cfg[r].fails

\* C2: exec_cmd with a timeout, of a command that starts and never exits on its
\* own, eventually returns, and when it has returned the process is not alive.
C2_TimeoutEnforced ==
  /\ [](\A r \in Results : C2_Case(r) /\ Returned(r) => ~Alive(r))
  /\ \A r \in Results : (C2_Case(r) /\ cpc[r] = "l156") ~> Returned(r)

\* C3: when Popen fails, the call ends by raising the launch error: it returns
\* no Result, raises nothing else, and is not left polling for a process that
\* no thread will ever attach.
C3_LaunchErrorSurfaces ==
  \A r \in Results :
    cfg[r].fails =>
      /\ ~Returned(r)
      /\ cpc[r] \in Errors => cpc[r] = "OSError"
      /\ ~(cpc[r] = "l166" /\ epc[r] \in Errors)

\* C4: when exec_cmd returns a Result whose timeout (if any) did not pass,
\* returncode and total_time are set, both pumps have seen end-of-file, and
\* each buffer holds exactly what the process wrote to that stream, in order.
C4_SyncCompletion ==
  \A r \in Results :
    (cfg[r].mode = "sync" /\ Returned(r) /\ ~expired[r]) =>
      /\ returncode[r] # None
      /\ total_time[r] # None
      /\ \A s \in Streams :
           /\ ppc[r][s] = "done"
           /\ GetValue(buf[r][s]) = Written(r, s)

\* C4 witness: exec_cmd with a timeout that did not pass has returned the
\* Result of a process that wrote its whole output
C4_Witness ==
  \E r \in Results :
    /\ cfg[r].mode = "sync" /\ cfg[r].timeout /\ ~expired[r]
    /\ Returned(r)
    /\ cfg[r].out = MaxOut
    /\ \A s \in Streams : GetValue(buf[r][s]) = Script(s)

\* C5: whenever is_running is False on a Result that async_cmd returned,
\* returncode is set and the buffers hold all the process wrote.
C5_AsyncCompletion ==
  \A r \in Results :
    (cfg[r].mode = "async" /\ Returned(r) /\ ~is_running(r)) =>
      /\ returncode[r] # None
      /\ \A s \in Streams : GetValue(buf[r][s]) = Written(r, s)

\* C8: no call of kill() raises, whoever else is in kill() on the same Result
\* at the same time, and once a call by the holder or by cleanup() has
\* returned the Result is not in OBJS_TO_CLEANUP.
C8_ConcurrentKillTolerated ==
  \A r \in Results :
    /\ \A k \in Killers : kpc[r][k] # "ValueError"
    /\ \A k \in {"caller", "cleanup"} :
         kpc[r][k] = "ret" => ~InList(OBJS_TO_CLEANUP, r)

\* C9: once the _exec_cmd run of an asynchronous invocation has finished and
\* async_cmd has returned, the Result is not in OBJS_TO_CLEANUP.
C9_DeregisteredOnCompletion ==
  \A r \in Results :
    (cfg[r].mode = "async" /\ Returned(r) /\ epc[r] = "return") =>
      ~InList(OBJS_TO_CLEANUP, r)

\* C10: whenever the process of an asynchronous invocation is alive, its
\* Result is in OBJS_TO_CLEANUP.
C10_RegisteredWhileAlive ==
  \A r \in Results :
    (cfg[r].mode = "async" /\ Alive(r)) => InList(OBJS_TO_CLEANUP, r)

\* cleanup() is over: its loop ended, or an exception ended it
CleanupOver == clpc \in {"done", "ValueError"}

\* C6: when every asynchronous invocation had returned and was registered at
\* the start of cleanup(), then once cleanup() is over it has called kill()
\* exactly once on each Result, no tracked process is alive and
\* OBJS_TO_CLEANUP is empty.
C6_CleanupDrains ==
  (CleanupOver /\ \A r \in Results : InList(clall, r)) =>
    /\ \A r \in Results : clkills[r] = 1 /\ ~Alive(r)
    /\ OBJS_TO_CLEANUP = <<>>

\* a step of kill() called by the holder of the Result
C7_KillStep(r) ==
  kpc'[r]["caller"] # kpc[r]["caller"] /\ kpc[r]["caller"] # "idle"

\* C7: kill() called by the holder of a Result, one call after the other, never
\* raises; on a Result with no process it changes nothing; no step of it
\* changes returncode, total_time or the buffers, and from the second call on
\* it leaves OBJS_TO_CLEANUP as the first call left it.
C7_IdempotentKill ==
  /\ [](\A r \in Results :
          kpc[r]["caller"] # "ValueError" /\ cpc[r] # "ValueError")
  /\ [][\A r \in Results :
          C7_KillStep(r) =>
            /\ returncode'[r] = returncode[r]
            /\ total_time'[r] = total_time[r]
            /\ buf'[r] = buf[r]
            /\ ckills[r] >= 2 => OBJS_TO_CLEANUP' = OBJS_TO_CLEANUP
            /\ (kpc[r]["caller"] = "l92" /\ proc[r] = None) =>
                 /\ kpc'[r]["caller"] = "ret"
                 /\ UNCHANGED <<resVars, ioVars, osVars, OBJS_TO_CLEANUP>>]_vars

\* C7 witness: the second kill() of the caller has returned on a Result that
\* was registered and whose process had been reaped
C7_Witness ==
  \E r \in Results :
    /\ cfg[r].mode = "async"
    /\ ckills[r] = 2
    /\ cpc[r] = "returned"
    /\ ps[r] = "reaped"
    /\ ~InList(OBJS_TO_CLEANUP, r)

PumpsDone(r) == \A s \in Streams : ppc[r][s] = "done"

\* C12: whenever returncode or total_time is set both pumps have finished, and
\* a Result leaves OBJS_TO_CLEANUP only when both its pumps have finished.
C12_PumpsBeforeFinal ==
  /\ [](\A r \in Results :
          (returncode[r] # None \/ total_time[r] # None) => PumpsDone(r))
  /\ [][\A r \in Results :
          (InList(OBJS_TO_CLEANUP, r) /\ ~InList(OBJS_TO_CLEANUP', r)) =>
            PumpsDone(r)]_vars

\* the engine's wait() has returned and line 136 has stored what it returned
WaitObserved(r) == tpc[r] \in {"l137", "l138", "done"}

\* C13: on a Result that async_cmd has returned, total_time is set if and only
\* if returncode is set, and returncode is None if and only if the engine's
\* wait() has not yet observed the process to exit.
C13_ResultInvariant ==
  \A r \in Results :
    (cfg[r].mode = "async" /\ Returned(r)) =>
      /\ total_time[r] # None <=> returncode[r] # None
      /\ returncode[r] = None <=> ~WaitObserved(r)

\* clear_buffers() has been called on the Result and has returned
Cleared(r) == clears[r] > 0 /\ cpc[r] = "returned"

\* C14: once clear_buffers() has returned, each buffer holds only bytes the
\* process wrote after clear_buffers() was called, as one run in the order
\* written, each once, and all of them that were written by the time the pumps
\* have finished; a pump may write between the seek(0) and the truncate().
C14_BufferClearing ==
  \A r \in Results :
    Cleared(r) =>
      \A s \in Streams :
        LET n == Len(GetValue(buf[r][s]))
        IN \E k \in cwr[r][s]..wr[r][s] :
             /\ k + n <= wr[r][s]
             /\ GetValue(buf[r][s]) = SubSeq(Script(s), k + 1, k + n)
             /\ PumpsDone(r) => k + n = wr[r][s]

\* C15: when _exec_cmd with a timeout returns after the timeout passed, its
\* kill() found the process attached, the thread running target() has been
\* joined and both pumps have seen end-of-file.
C15_TimeoutPathCompletion ==
  \A r \in Results :
    (cfg[r].timeout /\ expired[r] /\ epc[r] = "return") =>
      /\ ~knone[r]
      /\ TargetOver(r)
      /\ PumpsDone(r)

\* C16: once returncode is set it never changes, and it is the status the
\* process ended with (-SIGKILL when kill() ended it); the assignment of line
\* 150 stores again the value line 136 stored.
C16_ExitCodeSetOnce ==
  /\ [](\A r \in Results :
          returncode[r] # None => returncode[r] = pstatus[r])
  /\ [][\A r \in Results :
          returncode[r] # None => returncode'[r] = returncode[r]]_vars

\* C16 witness: line 150 has run on a Result whose process the timeout path
\* killed, and returncode is -SIGKILL
C16_Witness ==
  \E r \in Results :
    /\ expired[r]
    /\ epc[r] \in {"l151", "return"}
    /\ returncode[r] = Some(0 - SIGKILL)

\* a is a prefix of b
IsPrefix(a, b) == Len(a) <= Len(b) /\ SubSeq(b, 1, Len(a)) = a

\* C17: with no call of clear_buffers, every step leaves what a buffer held as
\* a prefix of what it holds next; a buffer changes only by its own pump
\* writing the line it read; and once returncode and total_time are both set
\* the buffers change no more.
C17_BufferMonotonicity ==
  [][\A r \in Results :
       /\ \A s \in Streams :
            /\ IsPrefix(GetValue(buf[r][s]), GetValue(buf'[r][s]))
            /\ buf'[r][s] # buf[r][s] =>
                 /\ ppc[r][s] = "l29" /\ ppc'[r][s] = "l28"
                 /\ GetValue(buf'[r][s]) = GetValue(buf[r][s]) \o pline[r][s]
       /\ (returncode[r] # None /\ total_time[r] # None) =>
            buf'[r] = buf[r]]_vars

\* C17 witness: an invocation is complete whose stderr buffer grew by two
\* writes of its pump to all the process wrote
C17_Witness ==
  \E r \in Results :
    /\ cfg[r].out = MaxOut
    /\ returncode[r] # None /\ total_time[r] # None
    /\ GetValue(buf[r]["stderr"]) = Script("stderr")
    /\ FirstNL(Script("stderr"), 1) < MaxOut

\* a step of a call of kill() on Result r: one of the lines 92-106
KillStep(r) ==
  \E k \in Killers :
    /\ kpc[r][k] \in {"l92", "l100", "l101", "l105", "l106"}
    /\ <<kpc'[r][k], ki'[r][k]>> # <<kpc[r][k], ki[r][k]>>

\* C18: OBJS_TO_CLEANUP changes only by async_cmd appending the Result it
\* created or by kill() on a Result removing that Result, so never by a
\* synchronous exec_cmd; and a step of kill() on a Result leaves the
\* membership, the process and the buffers of every other Result unchanged.
C18_RegistryFrame ==
  /\ [][OBJS_TO_CLEANUP' # OBJS_TO_CLEANUP =>
          \E r \in Results :
            /\ cfg[r].mode = "async"
            /\ \/ /\ cpc[r] = "l168" /\ cpc'[r] = "returned"
                  /\ OBJS_TO_CLEANUP' = Append(OBJS_TO_CLEANUP, r)
               \/ /\ KillStep(r)
                  /\ OBJS_TO_CLEANUP' = RemoveFirst(OBJS_TO_CLEANUP, r)]_vars
  /\ [][\A r \in Results :
          KillStep(r) =>
            \A q \in Results \ {r} :
              /\ InList(OBJS_TO_CLEANUP', q) <=> InList(OBJS_TO_CLEANUP, q)
              /\ proc'[q] = proc[q]
              /\ ps'[q] = ps[q] /\ pstatus'[q] = pstatus[q] /\ ds'[q] = ds[q]
              /\ buf'[q] = buf[q]]_vars

\* the step of kill() on Result r, called by k, that runs
\* os.kill(self.proc.pid, sig) at line 103
SignalsPid(r, k) ==
  /\ kpc[r][k] = "l101"
  /\ ki[r][k] > Len(kall[r][k])
  /\ kpc'[r][k] = "l105"

\* C19: no kill() called by the timeout path or by cleanup() runs os.kill on
\* the pid of a tracked process that the engine's wait() has already reaped.
C19_NoSignalAfterReaping ==
  [][\A r \in Results : \A k \in {"engine", "cleanup"} :
       SignalsPid(r, k) => ps[r] # "reaped"]_vars

\* how many times x occurs in the list l
Occurrences(l, x) == Cardinality({i \in 1..Len(l) : l[i] = x})

\* C20: each Result occurs at most once in OBJS_TO_CLEANUP, and the remove()
\* of kill() on a Result leaves no occurrence of that Result in it.
C20_NoDuplicateRegistration ==
  /\ [](\A r \in Results : Occurrences(OBJS_TO_CLEANUP, r) <= 1)
  /\ [][\A r \in Results :
          (KillStep(r) /\ OBJS_TO_CLEANUP' # OBJS_TO_CLEANUP) =>
            ~InList(OBJS_TO_CLEANUP', r)]_vars

\* C20 witness: two Results were registered and the kill() that cleanup()
\* called on one of them has removed it, the other still being registered
C20_Witness ==
  \E r \in Results : \E q \in Results \ {r} :
    /\ kpc[r]["cleanup"] = "ret"
    /\ proc[r] # None
    /\ ~InList(OBJS_TO_CLEANUP, r)
    /\ InList(OBJS_TO_CLEANUP, q)

====
